---- MODULE Spec2Model ----
\* Rustorrent: the bencode decoder (bencode-decoder/src/lib.rs) and the torrent
\* metadata schema (torrent/src/meta_info.rs) as a state machine whose actions
\* apply the decoder / the constructors to inputs drawn from bounded sets.
\*
\* A byte is a one-character string ("i", "1", ":" ...); XFF stands for the byte
\* 0xFF, which no valid UTF-8 sequence contains.  A u64 / usize / i64 is a machine
\* word of four 16-bit limbs, most significant first, so that checked and wrapping
\* arithmetic, `as` casts and decimal formatting are computed at their real width.
EXTENDS Integers, Sequences, FiniteSets, TLC

VARIABLES build, gen, op, arg, ret, op2, arg2, ret2

vars == <<build, gen, op, arg, ret, op2, arg2, ret2>>

\* ---------------------------------------------------------------- bounds

\* longest input enumerated over Alphabet
MaxLen == 3
\* most values (or key/value pairs) put in a generated list or dictionary
MaxItems == 2
\* most entries of a generated `files` list
MaxFiles == 2
\* most 20-byte hashes in a generated `pieces` string
MaxPieces == 2
\* longest trailing byte sequence appended to a decoded input
MaxTail == 1
\* small magnitudes 0 .. MaxSmall used as integer literals and declared lengths
MaxSmall == 12

\* ---------------------------------------------------------------- machine words

LimbBase == 2^16
LimbMax == LimbBase - 1

U64_ZERO == <<0, 0, 0, 0>>
U64_MAX == <<LimbMax, LimbMax, LimbMax, LimbMax>>
I64_MAX == <<2^15 - 1, LimbMax, LimbMax, LimbMax>>
\* i64::MIN, and `i64::MIN as u64` (the same bit pattern)
I64_MIN == <<2^15, 0, 0, 0>>

\* a small natural number as a word
Word(n) == <<0, 0, n \div LimbBase, n % LimbBase>>

\* the value of a word below 2^31
WordNat(w) == w[3] * LimbBase + w[4]

\* Ord::cmp on u64
RECURSIVE CmpFrom(_, _, _)
CmpFrom(x, y, i) ==
    IF i > 4 THEN "Equal"
    ELSE IF x[i] < y[i] THEN "Less"
    ELSE IF x[i] > y[i] THEN "Greater"
    ELSE CmpFrom(x, y, i + 1)

cmp(x, y) == CmpFrom(x, y, 1)

\* x * m + c for small m, c: the low 64 bits and the carry out of them
MulAdd(x, m, c) ==
    LET p4 == x[4] * m + c
        p3 == x[3] * m + p4 \div LimbBase
        p2 == x[2] * m + p3 \div LimbBase
        p1 == x[1] * m + p2 \div LimbBase
    IN  [word |-> <<p1 % LimbBase, p2 % LimbBase, p3 % LimbBase, p4 % LimbBase>>,
         carry |-> p1 \div LimbBase]

\* x + y: the low 64 bits and the carry out of them
AddWords(x, y) ==
    LET s4 == x[4] + y[4]
        s3 == x[3] + y[3] + s4 \div LimbBase
        s2 == x[2] + y[2] + s3 \div LimbBase
        s1 == x[1] + y[1] + s2 \div LimbBase
    IN  [word |-> <<s1 % LimbBase, s2 % LimbBase, s3 % LimbBase, s4 % LimbBase>>,
         carry |-> s1 \div LimbBase]

\* u64::checked_mul / u64::checked_add: "None" on overflow
Checked(r) == IF r.carry > 0 THEN [some |-> FALSE] ELSE [some |-> TRUE, val |-> r.word]

checked_mul(x, m) == Checked(MulAdd(x, m, 0))

checked_add(x, d) == Checked(MulAdd(x, 1, d))

\* two's complement negation: -(x as i64) for 0 < x < 2^63
wrapping_neg(x) ==
    MulAdd(<<LimbMax - x[1], LimbMax - x[2], LimbMax - x[3], LimbMax - x[4]>>, 1, 1).word

IsNegative(x) == x[1] >= 2^15

\* ---------------------------------------------------------------- decimal text

Digits == <<"0", "1", "2", "3", "4", "5", "6", "7", "8", "9">>

IsDigit(c) == \E d \in 1..10 : Digits[d] = c

\* cur - b'0'
DigitVal(c) == (CHOOSE d \in 1..10 : Digits[d] = c) - 1

\* x / 10 and x % 10 by long division over the limbs
DivMod10(x) ==
    LET c1 == x[1]
        c2 == (c1 % 10) * LimbBase + x[2]
        c3 == (c2 % 10) * LimbBase + x[3]
        c4 == (c3 % 10) * LimbBase + x[4]
    IN  [quot |-> <<c1 \div 10, c2 \div 10, c3 \div 10, c4 \div 10>>, rem |-> c4 % 10]

\* u64::to_string
RECURSIVE u64_to_string(_)
u64_to_string(x) ==
    LET qr == DivMod10(x)
    IN  IF qr.quot = U64_ZERO THEN <<Digits[qr.rem + 1]>>
        ELSE Append(u64_to_string(qr.quot), Digits[qr.rem + 1])

\* i64::to_string
i64_to_string(x) ==
    IF IsNegative(x) THEN <<"-">> \o u64_to_string(wrapping_neg(x))
    ELSE u64_to_string(x)

\* ---------------------------------------------------------------- NumericGrammar

\* what a decoding function leaves behind: its Option and the out-parameter *len;
\* "Panic" is an abort (index out of range, arithmetic overflow in a checked build)
Some(v, n) == [tag |-> "Some", val |-> v, len |-> n]
None(n) == [tag |-> "None", len |-> n]
Panic == [tag |-> "Panic", len |-> 0]

\* num.checked_mul(10)?.checked_add(digit)? of the loop of decode_u64: the `?` of
\* either returns None out of decode_u64
\* the accumulation without the multiplication by ten
add_digit_only(num, digit) == checked_add(num, digit)

mul_add_digit(num, digit) ==
    IF ~checked_mul(num, 10).some THEN [some |-> FALSE]
    ELSE checked_add(checked_mul(num, 10).val, digit)

RECURSIVE u64_loop(_, _, _, _)

\* one digit of the loop with *len += 1 placed after the checked accumulation
u64_digit_counted_late(ascii_num, i, len, acc) ==
    IF ~acc.some THEN None(len)
    ELSE u64_loop(ascii_num, i + 1, acc.val, len + 1)

\* one digit of the loop: *len += 1, then the checked accumulation
u64_digit(ascii_num, i, len, acc) ==
    IF ~acc.some THEN None(len + 1)
    ELSE u64_loop(ascii_num, i + 1, acc.val, len + 1)

\* the `for cur in ascii_num` loop of decode_u64, from position i (1-based)
u64_loop(ascii_num, i, num, len) ==
    IF i > Len(ascii_num) \/ ~IsDigit(ascii_num[i]) THEN Some(num, len)
    ELSE u64_digit(ascii_num, i, len, mul_add_digit(num, DigitVal(ascii_num[i])))

\* what follows the loop of decode_u64, r being what the loop left
u64_result(r) ==
    IF r.tag = "None" THEN r
    ELSE IF r.val = U64_ZERO /\ (r.len = 0 \/ r.len > 1) THEN None(r.len)
    ELSE r

\* decode_u64 without its leading-zero branch
decode_u64_no_zero_rule(ascii_num, len) ==
    IF Len(ascii_num) = 0 THEN None(0)
    ELSE u64_loop(ascii_num, 1, U64_ZERO, len)

decode_u64(ascii_num, len) ==
    IF Len(ascii_num) = 0 THEN None(0)
    ELSE IF Len(ascii_num) >= 2 /\ ascii_num[1] = "0" THEN Some(U64_ZERO, 1)
    ELSE u64_result(u64_loop(ascii_num, 1, U64_ZERO, len))

\* decode_i64 with `num < i64::MAX as u64` for `num <= i64::MAX as u64`
i64_result_exclusive_max(is_positive, num, len1) ==
    IF is_positive
    THEN IF cmp(num, I64_MAX) = "Less" THEN Some(num, len1) ELSE None(len1)
    ELSE IF cmp(num, I64_MIN) = "Less"
         THEN IF num = U64_ZERO THEN None(len1) ELSE Some(wrapping_neg(num), len1)
    ELSE IF cmp(num, I64_MIN) = "Equal" THEN Some(I64_MIN, len1)
    ELSE None(len1)

\* the range check of decode_i64: num is what decode_u64 returned, len1 is *len
\* after `*len += start_offs`
i64_result(is_positive, num, len1) ==
    IF is_positive
    THEN IF cmp(num, I64_MAX) # "Greater" THEN Some(num, len1) ELSE None(len1)
    ELSE IF cmp(num, I64_MIN) = "Less"
         THEN IF num = U64_ZERO THEN None(len1) ELSE Some(wrapping_neg(num), len1)
    ELSE IF cmp(num, I64_MIN) = "Equal" THEN Some(I64_MIN, len1)
    ELSE None(len1)

\* decode_i64 without `*len += start_offs`
i64_signed_len_of_digits(is_positive, start_offs, opt_num) ==
    IF opt_num.tag = "None" THEN None(opt_num.len)
    ELSE i64_result(is_positive, opt_num.val, opt_num.len)

\* decode_i64 after its call of decode_u64 on &ascii_num[start_offs..]
i64_signed(is_positive, start_offs, opt_num) ==
    IF opt_num.tag = "None" THEN None(opt_num.len + start_offs)
    ELSE i64_result(is_positive, opt_num.val, opt_num.len + start_offs)

decode_i64(ascii_num, len) ==
    IF Len(ascii_num) = 0 THEN None(len)
    ELSE IF ascii_num[1] = "-"
         THEN i64_signed(FALSE, 1, decode_u64(SubSeq(ascii_num, 2, Len(ascii_num)), len))
         ELSE i64_signed(TRUE, 0, decode_u64(ascii_num, len))

\* ---------------------------------------------------------------- Element

ByteString(bs) == [tag |-> "ByteString", bytes |-> bs]
Integer(w) == [tag |-> "Integer", int |-> w]
List(l) == [tag |-> "List", list |-> l]
Dictionary(d) == [tag |-> "Dictionary", dict |-> d]

\* HashMap::new and HashMap::insert (an existing key keeps one entry, its value replaced)
EmptyMap == [k \in {} |-> k]
\* HashMap::entry(key).or_insert(val): an existing key keeps its value
insert_keep_first(dict, key, val) ==
    [k \in DOMAIN dict \cup {key} |-> IF k \in DOMAIN dict THEN dict[k] ELSE val]

insert(dict, key, val) == [k \in DOMAIN dict \cup {key} |-> IF k = key THEN val ELSE dict[k]]

\* the byte 0xFF
XFF == "\\xFF"

\* String::from_utf8(bytes).ok(): the bytes modelled are ASCII, valid, and 0xFF, never valid
from_utf8(bytes) ==
    IF \E i \in 1..Len(bytes) : bytes[i] = XFF THEN [some |-> FALSE]
    ELSE [some |-> TRUE, val |-> bytes]

\* bencode[from..] with a 0-based start
SliceFrom(bencode, from) == SubSeq(bencode, from + 1, Len(bencode))

\* ---------------------------------------------------------------- ValueDecoder

\* usize + usize: overflow aborts a build with overflow checks ("debug") and wraps
\* in one without ("release")
usize_add(x, y) ==
    IF AddWords(x, y).carry > 0 /\ build = "debug" THEN [panic |-> TRUE]
    ELSE [panic |-> FALSE, val |-> AddWords(x, y).word]

\* decode_bytesstring with `end_idx >= bencode.len()` for `end_idx > bencode.len()`
bytes_slice_exclusive_end(bencode, len, bytes_len_len, start_idx, end_idx) ==
    IF end_idx.panic THEN Panic
    ELSE IF \/ start_idx > Len(bencode)
            \/ bencode[bytes_len_len + 1] # ":"
            \/ cmp(end_idx.val, Word(Len(bencode))) # "Less"
         THEN None(len)
    ELSE IF start_idx > WordNat(end_idx.val) THEN Panic
    ELSE Some(ByteString(SubSeq(bencode, start_idx + 1, WordNat(end_idx.val))),
              WordNat(end_idx.val))

\* the bounds check and the slice of decode_bytesstring; end_idx is start_idx + bytes_len
bytes_slice(bencode, len, bytes_len_len, start_idx, end_idx) ==
    IF end_idx.panic THEN Panic
    ELSE IF \/ start_idx > Len(bencode)
            \/ bencode[bytes_len_len + 1] # ":"
            \/ cmp(end_idx.val, Word(Len(bencode))) = "Greater"
         THEN None(len)
    \* &bencode[start_idx..end_idx] aborts when start_idx > end_idx
    ELSE IF start_idx > WordNat(end_idx.val) THEN Panic
    ELSE Some(ByteString(SubSeq(bencode, start_idx + 1, WordNat(end_idx.val))),
              WordNat(end_idx.val))

\* decode_bytesstring after its call of decode_u64; `as usize` keeps all 64 bits
bytes_after_len(bencode, len, u) ==
    IF u.tag = "None" THEN None(len)
    ELSE bytes_slice(bencode, len, u.len, u.len + 1, usize_add(Word(u.len + 1), u.val))

decode_bytesstring(bencode, len) ==
    IF Len(bencode) = 0 THEN None(0)
    ELSE bytes_after_len(bencode, len, decode_u64(bencode, 0))

\* decode_integer after its call of decode_i64 on &bencode[1..]
integer_after_int(bencode, len, int) ==
    IF int.tag = "None" THEN None(len)
    ELSE IF 1 + int.len >= Len(bencode) \/ bencode[1 + int.len + 1] # "e" THEN None(len)
    ELSE Some(Integer(int.val), int.len + 2)

decode_integer(bencode, len) ==
    IF Len(bencode) < 3 \/ bencode[1] # "i" THEN None(0)
    ELSE integer_after_int(bencode, len, decode_i64(SliceFrom(bencode, 1), 0))

RECURSIVE decode_all(_, _)
RECURSIVE list_loop(_, _, _, _)
RECURSIVE dict_loop(_, _, _, _)

\* one turn of the while loop of decode_list, elem_in_list being what decode_all
\* returned for &bencode[idx..]
list_body(bencode, len, idx, list, elem_in_list) ==
    IF elem_in_list.tag = "Panic" THEN Panic
    ELSE IF elem_in_list.tag = "None" THEN None(len)
    ELSE list_loop(bencode, len, idx + elem_in_list.len, Append(list, elem_in_list.val))

\* decode_list reporting `*len = idx` on success, the closing 'e' not counted
list_loop_len_without_close(bencode, len, idx, list) ==
    IF idx < Len(bencode) /\ bencode[idx + 1] # "e"
    THEN list_body(bencode, len, idx, list, decode_all(SliceFrom(bencode, idx), 0))
    ELSE IF idx >= Len(bencode) THEN Panic
    ELSE IF bencode[idx + 1] # "e" THEN None(idx)
    ELSE Some(List(list), idx)

\* the while loop of decode_list and what follows it; idx is 0-based
list_loop(bencode, len, idx, list) ==
    IF idx < Len(bencode) /\ bencode[idx + 1] # "e"
    THEN list_body(bencode, len, idx, list, decode_all(SliceFrom(bencode, idx), 0))
    \* bencode[idx] aborts when idx is the length of the slice
    ELSE IF idx >= Len(bencode) THEN Panic
    ELSE IF bencode[idx + 1] # "e" THEN None(idx)
    ELSE Some(List(list), idx + 1)

decode_list(bencode, len) ==
    IF Len(bencode) < 2 \/ bencode[1] # "l" THEN None(0)
    ELSE list_loop(bencode, len, 1, <<>>)

\* the end of one turn of the while loop of decode_dictionary, dict_val being what
\* decode_all returned for &bencode[idx..]
dict_value(bencode, len, idx, dict, dict_key, dict_val) ==
    IF dict_val.tag = "Panic" THEN Panic
    ELSE IF dict_val.tag = "None" THEN None(len)
    ELSE dict_loop(bencode, len, idx + dict_val.len, insert(dict, dict_key, dict_val.val))

\* one turn of the while loop of decode_dictionary, k being what decode_bytesstring
\* returned for &bencode[idx..]
dict_body(bencode, len, idx, dict, k) ==
    IF k.tag = "Panic" THEN Panic
    ELSE IF k.tag = "None" THEN None(len)
    ELSE IF ~from_utf8(k.val.bytes).some THEN None(len)
    ELSE IF idx + k.len >= Len(bencode) THEN None(len)
    ELSE dict_value(bencode, len, idx + k.len, dict, from_utf8(k.val.bytes).val,
                    decode_all(SliceFrom(bencode, idx + k.len), 0))

\* the while loop of decode_dictionary and what follows it; idx is 0-based
dict_loop(bencode, len, idx, dict) ==
    IF idx < Len(bencode) /\ bencode[idx + 1] # "e"
    THEN dict_body(bencode, len, idx, dict, decode_bytesstring(SliceFrom(bencode, idx), 0))
    \* bencode[idx] aborts when idx is the length of the slice
    ELSE IF idx >= Len(bencode) THEN Panic
    ELSE IF bencode[idx + 1] # "e" THEN None(len)
    ELSE Some(Dictionary(dict), idx + 1)

decode_dictionary(bencode, len) ==
    IF Len(bencode) < 2 \/ bencode[1] # "d" THEN None(0)
    ELSE dict_loop(bencode, len, 1, EmptyMap)

decode_all(bencode, len) ==
    IF Len(bencode) = 0 THEN None(len)
    ELSE IF IsDigit(bencode[1]) THEN decode_bytesstring(bencode, len)
    ELSE IF bencode[1] = "i" THEN decode_integer(bencode, len)
    ELSE IF bencode[1] = "l" THEN decode_list(bencode, len)
    ELSE IF bencode[1] = "d" THEN decode_dictionary(bencode, len)
    ELSE None(len)

\* strict decode: the Option<Element> it returns
\* decode returning whatever decode_all returned, the consumed length not compared
len_check_skipped(bencode, ret_) ==
    IF ret_.tag = "Panic" THEN [tag |-> "Panic"]
    ELSE IF ret_.tag = "Some" THEN [tag |-> "Some", val |-> ret_.val]
    ELSE [tag |-> "None"]

\* the post-check of decode: ret_ is what decode_all returned, its len the consumed length
len_check(bencode, ret_) ==
    IF ret_.tag = "Panic" THEN [tag |-> "Panic"]
    ELSE IF ret_.len # Len(bencode) THEN [tag |-> "None"]
    ELSE IF ret_.tag = "Some" THEN [tag |-> "Some", val |-> ret_.val]
    ELSE [tag |-> "None"]

decode(bencode) == len_check(bencode, decode_all(bencode, 0))

\* ---------------------------------------------------------------- ValueAccessors

OSome(v) == [some |-> TRUE, val |-> v]
ONone == [some |-> FALSE]

\* as-integer, and as-unsigned: the same 64 bits read as u64
convert_to_i64(e) == IF e.tag = "Integer" THEN OSome(e.int) ELSE ONone
convert_to_u64(e) == IF e.tag = "Integer" THEN OSome(e.int) ELSE ONone

\* as-bytes, as-UTF8-string
convert_to_ref_vec_u8(e) == IF e.tag = "ByteString" THEN OSome(e.bytes) ELSE ONone
convert_to_str(e) == IF e.tag = "ByteString" THEN from_utf8(e.bytes) ELSE ONone
convert_to_string(e) == convert_to_str(e)

\* as-list, as-dictionary
convert_to_ref_list(e) == IF e.tag = "List" THEN OSome(e.list) ELSE ONone
convert_to_dict(e) == IF e.tag = "Dictionary" THEN OSome(e.dict) ELSE ONone

\* as-list-of-strings: absent as soon as one element is not a UTF-8 byte string
convert_to_string_list(e) ==
    IF e.tag # "List" THEN ONone
    ELSE IF \E i \in 1..Len(e.list) : ~convert_to_str(e.list[i]).some THEN ONone
    ELSE OSome([i \in 1..Len(e.list) |-> convert_to_str(e.list[i]).val])

\* ---------------------------------------------------------------- TorrentMetadataSchema

KeyAnnounce == <<"a", "n", "n", "o", "u", "n", "c", "e">>
KeyInfo == <<"i", "n", "f", "o">>
KeyPieceLength == <<"p", "i", "e", "c", "e", " ", "l", "e", "n", "g", "t", "h">>
KeyPieces == <<"p", "i", "e", "c", "e", "s">>
KeyPrivate == <<"p", "r", "i", "v", "a", "t", "e">>
KeyName == <<"n", "a", "m", "e">>
KeyLength == <<"l", "e", "n", "g", "t", "h">>
KeyMd5sum == <<"m", "d", "5", "s", "u", "m">>
KeyFiles == <<"f", "i", "l", "e", "s">>
KeyPath == <<"p", "a", "t", "h">>
KeyAnnounceList == <<"a", "n", "n", "o", "u", "n", "c", "e", "-", "l", "i", "s", "t">>
KeyCreationDate == <<"c", "r", "e", "a", "t", "i", "o", "n", " ", "d", "a", "t", "e">>
KeyComment == <<"c", "o", "m", "m", "e", "n", "t">>
KeyCreatedBy == <<"c", "r", "e", "a", "t", "e", "d", " ", "b", "y">>
KeyEncoding == <<"e", "n", "c", "o", "d", "i", "n", "g">>

PIECE_HASH_SIZE == 20

\* dict.get(key)?.convert_to_...(): absent when the key is
get_u64(dict, key) == IF key \in DOMAIN dict THEN convert_to_u64(dict[key]) ELSE ONone
get_str(dict, key) == IF key \in DOMAIN dict THEN convert_to_str(dict[key]) ELSE ONone
get_vec_u8(dict, key) == IF key \in DOMAIN dict THEN convert_to_ref_vec_u8(dict[key]) ELSE ONone
get_dict(dict, key) == IF key \in DOMAIN dict THEN convert_to_dict(dict[key]) ELSE ONone
get_string_list(dict, key) ==
    IF key \in DOMAIN dict THEN convert_to_string_list(dict[key]) ELSE ONone

\* slice.chunks(size): consecutive pieces of `size` elements, the last one shorter
\* when the length is no multiple of size
chunks(slice, size) ==
    [j \in 1..((Len(slice) + size - 1) \div size) |->
        SubSeq(slice, (j - 1) * size + 1,
               IF j * size < Len(slice) THEN j * size ELSE Len(slice))]

\* CommonFileInfo::new without the test of pieces.len()
CommonFileInfo_new_unchecked(piece_length, pieces, is_private) ==
    OSome([piece_length |-> piece_length,
           pieces |-> chunks(pieces, PIECE_HASH_SIZE),
           is_private |-> is_private])

CommonFileInfo_new(piece_length, pieces, is_private) ==
    IF Len(pieces) % 20 # 0 THEN ONone
    ELSE OSome([piece_length |-> piece_length,
                pieces |-> chunks(pieces, PIECE_HASH_SIZE),
                is_private |-> is_private])

\* the `private` flag of from_dict: true for the integer 1 alone
is_private_of(info_dict) ==
    IF KeyPrivate \in DOMAIN info_dict
    THEN IF convert_to_i64(info_dict[KeyPrivate]).some
         THEN convert_to_i64(info_dict[KeyPrivate]).val = Word(1)
         ELSE FALSE
    ELSE FALSE

CommonFileInfo_from_dict(info_dict) ==
    IF ~get_u64(info_dict, KeyPieceLength).some THEN ONone
    ELSE IF ~get_vec_u8(info_dict, KeyPieces).some THEN ONone
    ELSE CommonFileInfo_new(get_u64(info_dict, KeyPieceLength).val,
                            get_vec_u8(info_dict, KeyPieces).val,
                            is_private_of(info_dict))

\* the optional md5sum of a file: absent when the key is, or when it is no string
md5sum_of(dict) == get_str(dict, KeyMd5sum)

SingleFileInfo_new_with_common_info(common_file_info, info_dict) ==
    IF ~get_str(info_dict, KeyName).some THEN ONone
    ELSE IF ~get_u64(info_dict, KeyLength).some THEN ONone
    ELSE OSome([variant |-> "SingleFile",
                common_file_info |-> common_file_info,
                name |-> get_str(info_dict, KeyName).val,
                length |-> get_u64(info_dict, KeyLength).val,
                md5sum |-> md5sum_of(info_dict)])

\* one turn of the `for file in files_element` loop: the MultipleFileInfoFile, if any
file_of(file) ==
    IF ~convert_to_dict(file).some THEN ONone
    ELSE IF ~get_u64(convert_to_dict(file).val, KeyLength).some THEN ONone
    ELSE IF ~get_string_list(convert_to_dict(file).val, KeyPath).some THEN ONone
    ELSE OSome([length |-> get_u64(convert_to_dict(file).val, KeyLength).val,
                path |-> get_string_list(convert_to_dict(file).val, KeyPath).val,
                md5sum |-> md5sum_of(convert_to_dict(file).val)])

\* new_with_common_info leaving out the elements it cannot read instead of failing
MultipleFileInfo_new_skipping_bad_files(common_file_info, name, files_element) ==
    OSome([variant |-> "MultipleFile",
           common_file_info |-> common_file_info,
           name |-> name,
           files |-> [i \in 1..Len(SelectSeq(files_element, LAMBDA f : file_of(f).some)) |->
                        file_of(SelectSeq(files_element, LAMBDA f : file_of(f).some)[i]).val]])

MultipleFileInfo_new_with_common_info(common_file_info, name, files_element) ==
    IF \E i \in 1..Len(files_element) : ~file_of(files_element[i]).some THEN ONone
    ELSE OSome([variant |-> "MultipleFile",
                common_file_info |-> common_file_info,
                name |-> name,
                files |-> [i \in 1..Len(files_element) |-> file_of(files_element[i]).val]])

\* the match on info_dict.get("files") of MetaInfo::from_element
select_info(info_dict, common_file_info, name) ==
    IF KeyFiles \in DOMAIN info_dict
    THEN IF ~convert_to_ref_list(info_dict[KeyFiles]).some THEN ONone
         ELSE MultipleFileInfo_new_with_common_info(common_file_info, name,
                  convert_to_ref_list(info_dict[KeyFiles]).val)
    ELSE SingleFileInfo_new_with_common_info(common_file_info, info_dict)

\* the FileInfo of MetaInfo::from_element, from the info dictionary
info_of(info_dict) ==
    IF ~CommonFileInfo_from_dict(info_dict).some THEN ONone
    ELSE IF ~get_str(info_dict, KeyName).some THEN ONone
    ELSE select_info(info_dict, CommonFileInfo_from_dict(info_dict).val,
                     get_str(info_dict, KeyName).val)

\* list.iter().map(|ve| ve.convert_to_string_list()).collect(): absent when one is
collect_string_lists(list) ==
    IF \E i \in 1..Len(list) : ~convert_to_string_list(list[i]).some THEN ONone
    ELSE OSome([i \in 1..Len(list) |-> convert_to_string_list(list[i]).val])

\* MetaInfo::new and the `for key in hashmap.keys()` loop; its one `?` that returns
\* None from from_element is convert_to_ref_list()? under "announce-list"
with_optional_fields(hashmap, info, announce) ==
    IF KeyAnnounceList \in DOMAIN hashmap /\ ~convert_to_ref_list(hashmap[KeyAnnounceList]).some
    THEN ONone
    ELSE OSome([info |-> info,
                announce |-> announce,
                announce_list |->
                    IF KeyAnnounceList \in DOMAIN hashmap
                    THEN collect_string_lists(convert_to_ref_list(hashmap[KeyAnnounceList]).val)
                    ELSE ONone,
                creation_date |->
                    IF KeyCreationDate \in DOMAIN hashmap
                    THEN convert_to_u64(hashmap[KeyCreationDate]) ELSE ONone,
                comment |->
                    IF KeyComment \in DOMAIN hashmap
                    THEN convert_to_string(hashmap[KeyComment]) ELSE ONone,
                created_by |->
                    IF KeyCreatedBy \in DOMAIN hashmap
                    THEN convert_to_string(hashmap[KeyCreatedBy]) ELSE ONone,
                encoding |->
                    IF KeyEncoding \in DOMAIN hashmap
                    THEN convert_to_string(hashmap[KeyEncoding]) ELSE ONone])

MetaInfo_from_element(element) ==
    IF element.tag # "Dictionary" THEN ONone
    ELSE IF ~get_str(element.dict, KeyAnnounce).some THEN ONone
    ELSE IF ~get_dict(element.dict, KeyInfo).some THEN ONone
    ELSE IF ~info_of(get_dict(element.dict, KeyInfo).val).some THEN ONone
    ELSE with_optional_fields(element.dict,
                              info_of(get_dict(element.dict, KeyInfo).val).val,
                              get_str(element.dict, KeyAnnounce).val)

\* the strict and the prefix entry point of the decoder, as meta_info.rs calls them
decode_len_check(bencode) == decode(bencode)

decode_no_len_check(bencode) ==
    IF decode_all(bencode, 0).tag = "Some"
    THEN [tag |-> "Some", val |-> decode_all(bencode, 0).val]
    ELSE [tag |-> decode_all(bencode, 0).tag]

\* let element = decoded?; MetaInfo::from_element(&element)
from_decoded(decoded) ==
    IF decoded.tag = "Panic" THEN [tag |-> "Panic"]
    ELSE IF decoded.tag = "None" THEN [tag |-> "None"]
    ELSE IF MetaInfo_from_element(decoded.val).some
         THEN [tag |-> "Some", val |-> MetaInfo_from_element(decoded.val).val]
    ELSE [tag |-> "None"]

from_u8_len_check(bencode) == from_decoded(decode_len_check(bencode))

from_u8_no_len_check(bencode) == from_decoded(decode_no_len_check(bencode))

\* ---------------------------------------------------------------- inputs

Alphabet == {"0", "1", ":", "i", "l", "d", "e", "-"}

\* every byte sequence over `bytes` of length 0 .. n
RECURSIVE Strings(_, _)
Strings(bytes, n) ==
    IF n = 0 THEN {<<>>}
    ELSE LET shorter == Strings(bytes, n - 1)
         IN  shorter \cup {Append(s, b) : s \in {t \in shorter : Len(t) = n - 1}, b \in bytes}

\* every sequence over `items` of length 0 .. n
RECURSIVE Seqs(_, _)
Seqs(items, n) ==
    IF n = 0 THEN {<<>>}
    ELSE LET shorter == Seqs(items, n - 1)
         IN  shorter \cup {Append(s, x) : s \in {t \in shorter : Len(t) = n - 1}, x \in items}

\* magnitudes: the small ones, the limb boundaries and the 64-bit boundaries
Magnitudes ==
    {Word(n) : n \in 0..MaxSmall}
    \cup {Word(123), Word(LimbMax), Word(LimbBase), <<0, 1, 0, 0>>, <<1, 0, 0, 0>>,
          <<0, 0, LimbMax, LimbMax>>, <<0, LimbMax, LimbMax, LimbMax>>,
          <<2^15 - 1, LimbMax, LimbMax, LimbMax - 1>>,
          I64_MAX, I64_MIN, MulAdd(I64_MIN, 1, 1).word,
          wrapping_neg(Word(2)), U64_MAX}

\* the text between "i" and "e": sign, leading zeros, the digits of a magnitude
\* (none when digits is FALSE), and what follows them
IntText(g) ==
    g.sign \o g.pad
        \o (IF g.digits THEN u64_to_string(g.mag) ELSE <<>>)
        \o g.extra

IntGens ==
    [kind : {"int"}, sign : {<<>>, <<"-">>, <<"+">>}, pad : {<<>>, <<"0">>},
     mag : Magnitudes, digits : {TRUE}, extra : {<<>>, <<"0">>, <<"a">>}]
    \cup [kind : {"int"}, sign : {<<>>, <<"-">>, <<"+">>}, pad : {<<>>, <<"0">>},
           mag : {U64_ZERO}, digits : {FALSE}, extra : {<<>>, <<"0">>, <<"a">>}]

\* the text decode_u64 / decode_i64 are given: a sign, a leading zero, a run of
\* digits (of a magnitude, of u64::MAX + 1, or twenty nines) and what follows it
MaxPlusOneText == SubSeq(u64_to_string(U64_MAX), 1, Len(u64_to_string(U64_MAX)) - 1) \o <<"6">>

NinesText == [i \in 1..Len(u64_to_string(U64_MAX)) |-> "9"]

NumGens ==
    [kind : {"num"}, sign : {<<>>, <<"-">>, <<"+">>}, pad : {<<>>, <<"0">>},
     digits : {<<>>, MaxPlusOneText, NinesText} \cup {u64_to_string(m) : m \in Magnitudes},
     extra : {<<>>, <<"0">>, <<"0", "0">>, <<"a">>, <<":">>, <<"+">>, <<"-", "+", "1">>}]

Payloads == Strings({"a", ":"}, 2) \cup {<<"a", "b", "c", "d", "e", "f">>}

\* "<len>:<payload>" with any declared length
BytesGens == [kind : {"bytes"}, n : Magnitudes, payload : Payloads]

\* complete values, each with the Element it encodes
Values ==
    { [enc |-> <<"i", "1", "e">>, elem |-> Integer(Word(1))],
      [enc |-> <<"i", "-", "2", "e">>, elem |-> Integer(wrapping_neg(Word(2)))],
      [enc |-> <<"2", ":", "a", "b">>, elem |-> ByteString(<<"a", "b">>)],
      [enc |-> <<"l", "e">>, elem |-> List(<<>>)],
      [enc |-> <<"d", "e">>, elem |-> Dictionary(EmptyMap)],
      [enc |-> <<"l", "i", "1", "e", "e">>, elem |-> List(<<Integer(Word(1))>>)] }

Keys == {<<"a">>, <<"b">>, <<XFF>>}

DictValues == {v \in Values : Len(v.enc) <= 3}

\* "l" values ["e"] and "d" (key value)* ["e"]; closed says whether the "e" is there
ListGens == [kind : {"list"}, items : Seqs(Values, MaxItems), closed : BOOLEAN]
DictGens ==
    [kind : {"dict"}, items : Seqs([key : Keys, value : DictValues], MaxItems),
     closed : BOOLEAN]

RawGens == [kind : {"raw"}, bytes : Strings(Alphabet, MaxLen)]

RECURSIVE Concat(_)
Concat(ss) == IF ss = <<>> THEN <<>> ELSE Head(ss) \o Concat(Tail(ss))

EncodeKey(key) == u64_to_string(Word(Len(key))) \o <<":">> \o key

Tails == Strings({"e", "0", "i", ":", "a"}, MaxTail) \ {<<>>}

\* ---------------------------------------------------------------- documents

\* a field of a generated dictionary: present or not, its Element, whether a
\* required field of that shape is acceptable, and what an optional field of that
\* shape is expected to project to
Field(e, ok, want) == [has |-> TRUE, e |-> e, ok |-> ok, want |-> want]
Absent == [has |-> FALSE, e |-> Integer(U64_ZERO), ok |-> FALSE, want |-> ONone]
Good(e) == Field(e, TRUE, ONone)
Bad(e) == Field(e, FALSE, ONone)

with(dict, key, field) == IF field.has THEN insert(dict, key, field.e) ELSE dict

StrT == ByteString(<<"t">>)
StrU == ByteString(<<"u">>)
NotUtf8 == ByteString(<<XFF>>)
IntElem(n) == Integer(Word(n))

\* n bytes that differ from one 20-byte piece to the next
PiecesOf(n) == [i \in 1..n |-> Digits[((i + i \div 20) % 10) + 1]]

\* entries of a `files` list, with whether MultipleFileInfoFile accepts them
GoodFile(length, path, md5) ==
    [e |-> Dictionary(with(insert(insert(EmptyMap, KeyLength, length), KeyPath, path),
                           KeyMd5sum, md5)),
     ok |-> TRUE]

FileElems ==
    { GoodFile(IntElem(3), List(<<StrT>>), Absent),
      GoodFile(IntElem(4), List(<<StrT, StrU>>), Good(StrU)),
      [e |-> IntElem(1), ok |-> FALSE],
      [e |-> Dictionary(insert(EmptyMap, KeyPath, List(<<StrT>>))), ok |-> FALSE],
      [e |-> Dictionary(insert(insert(EmptyMap, KeyLength, IntElem(3)), KeyPath,
                               List(<<NotUtf8>>))), ok |-> FALSE] }

FilesField(fs) ==
    Field(List([i \in 1..Len(fs) |-> fs[i].e]), \A i \in 1..Len(fs) : fs[i].ok, ONone)

FilesLists == {FilesField(fs) : fs \in Seqs(FileElems, MaxFiles)}

OneFile == FilesField(<<GoodFile(IntElem(3), List(<<StrT>>), Absent)>>)

AnnounceLists ==
    { Absent,
      Field(List(<<List(<<StrT>>), List(<<StrU, StrT>>)>>), TRUE,
            OSome(<< <<(<<"t">>)>>, <<(<<"u">>), (<<"t">>)>> >>)),
      Field(List(<<>>), TRUE, OSome(<<>>)),
      Field(IntElem(1), FALSE, ONone),
      Field(List(<<IntElem(1)>>), FALSE, ONone),
      Field(List(<<List(<<StrT>>), List(<<IntElem(1)>>)>>), FALSE, ONone) }

CreationDates ==
    {Absent, Field(IntElem(7), TRUE, OSome(Word(7))), Field(StrT, FALSE, ONone),
     Field(List(<<>>), FALSE, ONone)}

Texts ==
    {Absent, Field(StrT, TRUE, OSome(<<"t">>)), Field(IntElem(1), FALSE, ONone),
     Field(NotUtf8, FALSE, ONone)}

ValidPieces == Good(ByteString(PiecesOf(PIECE_HASH_SIZE)))

\* documents that differ in `length` and `files`
VariantDocs ==
    [kind : {"doc"}, root : {"dict"}, info : {"dict"},
     announce : {Good(StrT)},
     piece_length : {Good(IntElem(16)), Absent},
     pieces : {ValidPieces, Bad(ByteString(PiecesOf(PIECE_HASH_SIZE - 1)))},
     private : {Absent},
     name : {Good(StrU), Absent},
     length : {Good(IntElem(5)), Absent, Bad(StrT)},
     files : FilesLists \cup {Absent, Bad(IntElem(1))},
     announce_list : {Absent}, creation_date : {Absent}, comment : {Absent},
     created_by : {Absent}, encoding : {Absent}]

\* documents that differ in the required fields
RequiredDocs ==
    [kind : {"doc"}, root : {"dict", "list"}, info : {"dict", "absent", "string"},
     announce : {Good(StrT), Absent, Bad(IntElem(1)), Bad(NotUtf8)},
     piece_length : {Good(IntElem(16)), Absent, Bad(StrT), Good(IntElem(0)),
                     Good(Integer(wrapping_neg(Word(1))))},
     pieces : {Good(ByteString(PiecesOf(n * PIECE_HASH_SIZE))) : n \in 0..MaxPieces}
              \cup {Bad(ByteString(PiecesOf(1))), Absent, Bad(IntElem(1))},
     private : {Absent},
     name : {Good(StrU), Absent, Bad(IntElem(1))},
     length : {Good(IntElem(5))},
     files : {Absent, OneFile},
     announce_list : {Absent}, creation_date : {Absent}, comment : {Absent},
     created_by : {Absent}, encoding : {Absent}]

\* documents with valid required fields that differ in the optional ones
OptionalDocs ==
    [kind : {"doc"}, root : {"dict"}, info : {"dict"},
     announce : {Good(StrT)},
     piece_length : {Good(IntElem(16))},
     pieces : {ValidPieces},
     private : {Absent, Good(IntElem(1)), Good(IntElem(0)), Good(StrT)},
     name : {Good(StrU)},
     length : {Good(IntElem(5))},
     files : {Absent, OneFile},
     announce_list : AnnounceLists, creation_date : CreationDates, comment : Texts,
     created_by : {Absent, Field(StrU, TRUE, OSome(<<"u">>)), Field(IntElem(1), FALSE, ONone)},
     encoding : {Absent, Field(StrT, TRUE, OSome(<<"t">>)), Field(List(<<>>), FALSE, ONone)}]

\* arguments of CommonFileInfo::new
PiecesGens ==
    [kind : {"pieces"}, n : 0..(MaxPieces * PIECE_HASH_SIZE + 1),
     piece_length : {Word(16), Word(LimbBase)}, is_private : BOOLEAN]

\* the info dictionary and the root Element a document generator stands for
InfoDict(g) ==
    with(with(with(with(with(with(EmptyMap, KeyPieceLength, g.piece_length),
                             KeyPieces, g.pieces),
                        KeyPrivate, g.private),
                   KeyName, g.name),
              KeyLength, g.length),
         KeyFiles, g.files)

InfoField(g) ==
    IF g.info = "dict" THEN Good(Dictionary(InfoDict(g)))
    ELSE IF g.info = "string" THEN Bad(StrT)
    ELSE Absent

RootDict(g) ==
    with(with(with(with(with(with(with(EmptyMap, KeyAnnounce, g.announce),
                                  KeyInfo, InfoField(g)),
                             KeyAnnounceList, g.announce_list),
                        KeyCreationDate, g.creation_date),
                   KeyComment, g.comment),
              KeyCreatedBy, g.created_by),
         KeyEncoding, g.encoding)

Document(g) == IF g.root = "dict" THEN Dictionary(RootDict(g)) ELSE List(<<>>)

\* the bencoding of an Element, the keys of a dictionary in some order
RECURSIVE Bencode(_)
RECURSIVE BencodeDict(_)
BencodeDict(dict) ==
    IF DOMAIN dict = {} THEN <<>>
    ELSE LET key == CHOOSE k \in DOMAIN dict : TRUE
         IN  EncodeKey(key) \o Bencode(dict[key])
                 \o BencodeDict([k \in DOMAIN dict \ {key} |-> dict[k]])

Bencode(e) ==
    CASE e.tag = "ByteString" -> EncodeKey(e.bytes)
      [] e.tag = "Integer" -> <<"i">> \o i64_to_string(e.int) \o <<"e">>
      [] e.tag = "List" -> <<"l">> \o Concat([i \in 1..Len(e.list) |-> Bencode(e.list[i])]) \o <<"e">>
      [] e.tag = "Dictionary" -> <<"d">> \o BencodeDict(e.dict) \o <<"e">>

\* a bencoded document, followed or not by a trailing byte
TorrentDocs ==
    {g \in VariantDocs :
        /\ g.piece_length.ok /\ g.pieces.ok /\ g.name.ok /\ g.length.has
        /\ g.files \in {Absent, OneFile, Bad(IntElem(1))}}

TorrentGens == [kind : {"torrent"}, doc : TorrentDocs, tail : {<<>>, <<"e">>}]

\* the bytes a generator stands for
Encode(g) ==
    CASE g.kind = "raw" -> g.bytes
      [] g.kind = "int" -> <<"i">> \o IntText(g) \o <<"e">>
      [] g.kind = "num" -> g.sign \o g.pad \o g.digits \o g.extra
      [] g.kind = "bytes" -> u64_to_string(g.n) \o <<":">> \o g.payload
      [] g.kind = "list" ->
            <<"l">> \o Concat([i \in 1..Len(g.items) |-> g.items[i].enc])
                    \o (IF g.closed THEN <<"e">> ELSE <<>>)
      [] g.kind = "torrent" -> Bencode(Document(g.doc)) \o g.tail
      [] g.kind = "dict" ->
            <<"d">> \o Concat([i \in 1..Len(g.items) |->
                                  EncodeKey(g.items[i].key) \o g.items[i].value.enc])
                    \o (IF g.closed THEN <<"e">> ELSE <<>>)

\* ---------------------------------------------------------------- the decoder's callers

NoRet == [tag |-> "none"]

Init ==
    /\ build \in {"debug", "release"}
    /\ \/ gen \in RawGens
       \/ gen \in IntGens
       \/ gen \in NumGens
       \/ gen \in BytesGens
       \/ gen \in ListGens
       \/ gen \in DictGens
       \/ gen \in TorrentGens
    /\ arg = Encode(gen)
    /\ op = "start"
    /\ ret = NoRet
    /\ op2 = "none"
    /\ arg2 = <<>>
    /\ ret2 = NoRet

First(name, result) ==
    /\ op = "start"
    /\ op' = name
    /\ ret' = result
    /\ UNCHANGED <<build, gen, arg, op2, arg2, ret2>>

Second(name, input, result) ==
    /\ op = "decode_all"
    /\ op2 = "none"
    /\ op2' = name
    /\ arg2' = input
    /\ ret2' = result
    /\ UNCHANGED <<build, gen, arg, op, ret>>

\* let mut len = 0; decode_u64(ascii_num, &mut len), and the same of decode_i64
DecodeU64 == First("decode_u64", decode_u64(arg, 0))

DecodeI64 == First("decode_i64", decode_i64(arg, 0))

\* let mut len = 0; decode_all(bencode, &mut len)
DecodeAll == First("decode_all", decode_all(arg, 0))

DecodeBytesstring == First("decode_bytesstring", decode_bytesstring(arg, 0))

DecodeInteger == First("decode_integer", decode_integer(arg, 0))

DecodeList == First("decode_list", decode_list(arg, 0))

DecodeDictionary == First("decode_dictionary", decode_dictionary(arg, 0))

\* decode(bencode) on the input decode_all was given
Decode == Second("decode", arg, decode(arg))

\* decode_all on the input followed by trailing bytes, after it succeeded without them
DecodeAllExtended ==
    /\ ret.tag = "Some"
    /\ \E t \in Tails : Second("decode_all_extended", arg \o t, decode_all(arg \o t, 0))

\* decode_all and decode on the bytes decode_all consumed
DecodeAllPrefix ==
    /\ ret.tag = "Some"
    /\ Second("decode_all_prefix", SubSeq(arg, 1, ret.len),
              decode_all(SubSeq(arg, 1, ret.len), 0))

DecodePrefix ==
    /\ ret.tag = "Some"
    /\ Second("decode_prefix", SubSeq(arg, 1, ret.len), decode(SubSeq(arg, 1, ret.len)))

\* MetaInfo::from_u8_len_check(bencode) and from_u8_no_len_check(bencode)
FromU8LenCheck == Second("from_u8_len_check", arg, from_u8_len_check(arg))

FromU8NoLenCheck == Second("from_u8_no_len_check", arg, from_u8_no_len_check(arg))

Next ==
    \/ DecodeU64
    \/ DecodeI64
    \/ DecodeAll
    \/ DecodeBytesstring
    \/ DecodeInteger
    \/ DecodeList
    \/ DecodeDictionary
    \/ Decode
    \/ DecodeAllExtended
    \/ DecodeAllPrefix
    \/ DecodePrefix
    \/ FromU8LenCheck
    \/ FromU8NoLenCheck

Spec == Init /\ [][Next]_vars

\* ---------------------------------------------------------------- the schema's callers

InitMeta ==
    /\ build = "release"
    /\ \/ gen \in PiecesGens /\ arg = PiecesOf(gen.n)
       \/ gen \in VariantDocs /\ arg = Document(gen)
       \/ gen \in RequiredDocs /\ arg = Document(gen)
       \/ gen \in OptionalDocs /\ arg = Document(gen)
    /\ op = "start"
    /\ ret = NoRet
    /\ op2 = "none"
    /\ arg2 = <<>>
    /\ ret2 = NoRet

\* CommonFileInfo::new(piece_length, &pieces, is_private)
CommonFileInfoNew ==
    /\ gen.kind = "pieces"
    /\ First("CommonFileInfo::new", CommonFileInfo_new(gen.piece_length, arg, gen.is_private))

\* CommonFileInfo::from_dict on the info dictionary of the document
CommonFileInfoFromDict ==
    /\ gen.kind = "doc"
    /\ gen.root = "dict"
    /\ gen.info = "dict"
    /\ First("CommonFileInfo::from_dict", CommonFileInfo_from_dict(arg.dict[KeyInfo].dict))

\* MetaInfo::from_element(&element)
MetaInfoFromElement ==
    /\ gen.kind = "doc"
    /\ First("MetaInfo::from_element", MetaInfo_from_element(arg))

NextMeta ==
    \/ CommonFileInfoNew
    \/ CommonFileInfoFromDict
    \/ MetaInfoFromElement

SpecMeta == InitMeta /\ [][NextMeta]_vars

\* ---------------------------------------------------------------- the decoder, step by step

\* decode_all run one loop iteration at a time.  While it runs, ret holds the call
\* stack: one frame per active call of decode_list / decode_dictionary, with the
\* offset `base` in the input at which the slice it was given starts, its cursor
\* idx, what it has collected, and for a dictionary the key whose value is awaited.
\* arg2 and ret2 hold the results of the callees that have no loop of their own
\* (leaf_results, key_results), which a step looks up.
Frame(kind, base) ==
    [kind |-> kind, base |-> base, idx |-> 1, list |-> <<>>, dict |-> EmptyMap, key |-> <<>>]

Running(stack) == [tag |-> "Run", stack |-> stack]

Top == ret.stack[Len(ret.stack)]

Callers == SubSeq(ret.stack, 1, Len(ret.stack) - 1)

\* the slice `bencode` of the call a frame stands for
FrameSlice(f) == SliceFrom(arg, f.base)

\* decode_all on b dispatches to decode_list / decode_dictionary and their first
\* test (length, lead byte) lets b through to the loop
EntersLoop(b) == Len(b) >= 2 /\ b[1] \in {"l", "d"}

KindOf(b) == IF b[1] = "l" THEN "list" ELSE "dict"

\* while idx < bencode.len() && bencode[idx] != b'e'
LoopCondition(f) == f.idx < Len(FrameSlice(f)) /\ FrameSlice(f)[f.idx + 1] # "e"

\* idx += list_len, idx += key_len, idx += val_len
advance(idx, consumed) == idx + consumed

\* list.push(elem_in_list) / dict.insert(dict_key, dict_val), after the cursor moved
receive(f, v, n) ==
    IF f.kind = "list"
    THEN [f EXCEPT !.idx = advance(f.idx, n), !.list = Append(f.list, v)]
    ELSE [f EXCEPT !.idx = advance(f.idx, n), !.dict = insert(f.dict, f.key, v)]

\* a failure or an abort of a callee: `?` hands None to every caller in turn
Failure(r) == IF r.tag = "Panic" THEN Panic ELSE None(0)

\* what decode_all returned for a slice that enters no loop
step_leaf(callers, f, r) ==
    IF r.tag # "Some" THEN Failure(r)
    ELSE Running(Append(callers, receive(f, r.val, r.len)))

\* what the calls that enter no loop return, for the suffix of the input at each
\* offset: decode_all where it dispatches to no loop, and decode_bytesstring.  The
\* suffix a frame passes on, &bencode[idx..], is the suffix of the input at base + idx.
leaf_results(bencode) ==
    [i \in 0..Len(bencode) |->
        IF EntersLoop(SliceFrom(bencode, i)) THEN NoRet
        ELSE decode_all(SliceFrom(bencode, i), 0)]

key_results(bencode) ==
    [i \in 0..Len(bencode) |-> decode_bytesstring(SliceFrom(bencode, i), 0)]

\* decode_all(&bencode[idx..], ..) called by frame f: a new frame, or a value at once
step_call(callers, f) ==
    IF EntersLoop(SliceFrom(FrameSlice(f), f.idx))
    THEN Running(callers \o <<f, Frame(KindOf(SliceFrom(FrameSlice(f), f.idx)), f.base + f.idx)>>)
    ELSE step_leaf(callers, f, arg2[f.base + f.idx])

\* one turn of the loop of decode_dictionary up to its call of decode_all, k being
\* what decode_bytesstring returned for the key
step_key(callers, f, k) ==
    IF k.tag # "Some" THEN Failure(k)
    ELSE IF ~from_utf8(k.val.bytes).some THEN None(0)
    ELSE IF f.idx + k.len >= Len(FrameSlice(f)) THEN None(0)
    ELSE step_call(callers, [f EXCEPT !.idx = advance(f.idx, k.len),
                                      !.key = from_utf8(k.val.bytes).val])

\* Some(Element, *len) handed to the caller, or out of decode_all
step_return(callers, v, n) ==
    IF callers = <<>> THEN Some(v, n)
    ELSE Running(Append(SubSeq(callers, 1, Len(callers) - 1),
                        receive(callers[Len(callers)], v, n)))

\* what follows the loop: the test of bencode[idx] and the return
loop_exit(callers, f) ==
    IF f.idx >= Len(FrameSlice(f)) THEN Panic
    ELSE IF FrameSlice(f)[f.idx + 1] # "e" THEN None(0)
    ELSE step_return(callers, IF f.kind = "list" THEN List(f.list) ELSE Dictionary(f.dict),
                     f.idx + 1)

InitSteps ==
    /\ build \in {"debug", "release"}
    /\ \/ gen \in RawGens
       \/ gen \in ListGens
       \/ gen \in DictGens
    /\ arg = Encode(gen)
    /\ op = "start"
    /\ ret = NoRet
    /\ op2 = "none"
    /\ arg2 = leaf_results(arg)
    /\ ret2 = key_results(arg)

Resume(result) ==
    /\ op' = (IF result.tag = "Run" THEN "run" ELSE "returned")
    /\ ret' = result
    /\ UNCHANGED <<build, gen, arg, op2, arg2, ret2>>

\* decode_all(bencode, &mut len)
Call ==
    /\ op = "start"
    /\ Resume(IF EntersLoop(arg) THEN Running(<<Frame(KindOf(arg), 0)>>) ELSE arg2[0])

\* one iteration of the while loop of decode_list
ListTurn ==
    /\ op = "run"
    /\ Top.kind = "list"
    /\ LoopCondition(Top)
    /\ Resume(step_call(Callers, Top))

\* one iteration of the while loop of decode_dictionary
DictTurn ==
    /\ op = "run"
    /\ Top.kind = "dict"
    /\ LoopCondition(Top)
    /\ Resume(step_key(Callers, Top, ret2[Top.base + Top.idx]))

\* the loop condition fails: the terminator test and the return to the caller
LoopExit ==
    /\ op = "run"
    /\ ~LoopCondition(Top)
    /\ Resume(loop_exit(Callers, Top))

NextSteps ==
    \/ Call
    \/ ListTurn
    \/ DictTurn
    \/ LoopExit

\* a running call always takes its next step
SpecSteps == InitSteps /\ [][NextSteps]_vars /\ WF_vars(NextSteps)

\* ---------------------------------------------------------------- claims on the decoder

\* the input opens a list or a dictionary and ends before the closing 'e'
Dangling == gen.kind \in {"list", "dict"} /\ ~gen.closed

\* C1: a list or dictionary input that ends before its closing 'e' makes decode_list,
\* decode_dictionary, decode_all and decode return None: no read past the end, no abort.
C1_DanglingReturnsNone ==
    Dangling =>
        /\ op \in {"decode_list", "decode_dictionary", "decode_all"} => ret.tag = "None"
        /\ op2 = "decode" => ret2.tag = "None"

\* the declared length of a byte string exceeds the payload that follows ':'
Overlong == gen.kind = "bytes" /\ cmp(gen.n, Word(Len(gen.payload))) = "Greater"

\* C2: "<len>:<payload>" whose declared length exceeds the bytes after ':' makes
\* decode_bytesstring (and decode_all) return None: start_idx + len never overflows,
\* the slice is never inverted, nothing aborts.
C2_OverlongReturnsNone ==
    Overlong /\ op \in {"decode_bytesstring", "decode_all"} => ret.tag = "None"

\* C3: decode returns a value exactly when decode_all succeeds and consumed the whole
\* input, and then the value decode_all produced; one complete value followed by
\* trailing bytes ("5:abcdef") fails.
C3_StrictIffWholeInput ==
    /\ op2 = "decode" =>
            /\ ret2.tag = "Some" <=> (ret.tag = "Some" /\ ret.len = Len(arg))
            /\ ret2.tag = "Some" => ret2.val = ret.val
            /\ (ret.tag = "Some" /\ ret.len < Len(arg)) => ret2.tag = "None"
    /\ op2 = "from_u8_len_check" =>
            /\ ret2.tag = "Some" => (ret.tag = "Some" /\ ret.len = Len(arg))
            /\ (gen.kind = "torrent" /\ gen.tail # <<>>) => ret2.tag = "None"

C3_Witness ==
    /\ op2 = "decode"
    /\ arg = <<"5", ":", "a", "b", "c", "d", "e", "f">>
    /\ ret.tag = "Some"
    /\ ret.len = 7
    /\ ret2.tag = "None"

\* C4: when decode_all succeeds on b with value v and consumed length k, it succeeds
\* with the same v and k on b followed by any bytes and on the first k bytes of b,
\* and decode succeeds on those k bytes.
C4_PrefixIgnoresTrailingBytes ==
    /\ op2 \in {"decode_all_extended", "decode_all_prefix"} =>
            ret2.tag = "Some" /\ ret2.val = ret.val /\ ret2.len = ret.len
    /\ op2 = "decode_prefix" => ret2.tag = "Some" /\ ret2.val = ret.val
    /\ (op2 = "from_u8_no_len_check" /\ gen.kind = "torrent") =>
            ret2 = from_decoded([tag |-> "Some", val |-> Document(gen.doc)])

C4_Witness ==
    /\ op2 = "decode_all_extended"
    /\ Len(arg2) > Len(arg)
    /\ ret.tag = "Some"
    /\ ret.val.tag = "ByteString"
    /\ ret.len = Len(arg)
    /\ ret2.tag = "Some"

\* the input is "i", an optional '-', the decimal digits of a magnitude, "e"
PlainLiteral == gen.kind = "int" /\ gen.digits /\ gen.pad = <<>> /\ gen.extra = <<>>

\* v is -n in 64 bits: v + n wraps to zero and v is negative
IsNegationOf(v, n) == AddWords(v, n).word = U64_ZERO /\ IsNegative(v)

\* C5: decode of "i" decimal(n) "e" is Integer(n) for 0 <= n <= i64::MAX, decode of
\* "i-" decimal(n) "e" is Integer(-n) for 0 < n <= i64::MAX, decode of
\* "i-9223372036854775808e" is Integer(i64::MIN); the whole literal is consumed.
C5_IntegerRoundTrip ==
    (PlainLiteral /\ op2 = "decode") =>
        /\ (gen.sign = <<>> /\ cmp(gen.mag, I64_MAX) # "Greater") =>
                /\ ret2.tag = "Some"
                /\ ret2.val = Integer(gen.mag)
                /\ ret.len = Len(arg)
        /\ (gen.sign = <<"-">> /\ gen.mag # U64_ZERO /\ cmp(gen.mag, I64_MAX) # "Greater") =>
                /\ ret2.tag = "Some"
                /\ ret2.val.tag = "Integer"
                /\ IsNegationOf(ret2.val.int, gen.mag)
                /\ ret.len = Len(arg)
        /\ (gen.sign = <<"-">> /\ arg = <<"i">> \o i64_to_string(I64_MIN) \o <<"e">>) =>
                /\ ret2.tag = "Some"
                /\ ret2.val = Integer(I64_MIN)
                /\ ret.len = Len(arg)

C5_Witness ==
    /\ PlainLiteral
    /\ op2 = "decode"
    /\ gen.sign = <<>>
    /\ gen.mag = I64_MAX
    /\ Len(arg) = 21
    /\ ret2.tag = "Some"
    /\ ret2.val = Integer(I64_MAX)

\* the literals the decoder must refuse
RejectedLiterals ==
    { <<"i", "0", "1", "2", "3", "e">>,
      <<"i", "-", "0", "e">>,
      <<"i", "+", "1", "e">>,
      <<"i", "e">>,
      <<"i", "-", "e">>,
      <<"i">> \o u64_to_string(I64_MIN) \o <<"e">>,
      <<"i", "-">> \o u64_to_string(MulAdd(I64_MIN, 1, 1).word) \o <<"e">> }

\* C6: decode of "i" s "e" succeeds only if s is the canonical decimal text of the
\* i64 it yields (so no two accepted literals share a value); "i0123e", "i-0e",
\* "i+1e", "ie", "i-e", "i9223372036854775808e", "i-9223372036854775809e" fail.
C6_OnlyCanonicalIntegers ==
    op2 = "decode" =>
        /\ (Len(arg) >= 2 /\ arg[1] = "i" /\ arg[Len(arg)] = "e" /\ ret2.tag = "Some") =>
                /\ ret2.val.tag = "Integer"
                /\ SubSeq(arg, 2, Len(arg) - 1) = i64_to_string(ret2.val.int)
        /\ arg \in RejectedLiterals => ret2.tag = "None"

C6_Witness ==
    /\ op2 = "decode"
    /\ arg = <<"i", "0", "1", "2", "3", "e">>
    /\ ret2.tag = "None"

\* every key of the generated dictionary is valid UTF-8
ValidKeys == \A i \in 1..Len(gen.items) : from_utf8(gen.items[i].key).some

LastOccurrence(i) == \A j \in (i + 1)..Len(gen.items) : gen.items[j].key # gen.items[i].key

\* C7: "d" pairs "e" with a repeated key decodes: the Dictionary has one entry per
\* distinct key, a repeated key maps to the value of its last occurrence, and the
\* keys may come in any order.
C7_LastWriteWins ==
    (gen.kind = "dict" /\ gen.closed /\ ValidKeys /\ op \in {"decode_dictionary", "decode_all"}) =>
        /\ ret.tag = "Some"
        /\ ret.len = Len(arg)
        /\ ret.val.tag = "Dictionary"
        /\ DOMAIN ret.val.dict = {gen.items[i].key : i \in 1..Len(gen.items)}
        /\ \A i \in 1..Len(gen.items) :
                LastOccurrence(i) => ret.val.dict[gen.items[i].key] = gen.items[i].value.elem

C7_Witness ==
    /\ gen.kind = "dict"
    /\ gen.closed
    /\ op = "decode_dictionary"
    /\ \E i, j \in 1..Len(gen.items) :
            /\ i < j
            /\ gen.items[i].key = gen.items[j].key
            /\ gen.items[i].value # gen.items[j].value
            /\ ret.tag = "Some"
            /\ ret.val.dict[gen.items[i].key] = gen.items[j].value.elem

\* ---------------------------------------------------------------- claims on the schema

\* the rule on `pieces`: built is whether construction succeeded, common its result
PieceHashRule(bytes, built, common) ==
    IF Len(bytes) % 20 # 0 THEN ~built
    ELSE /\ built
         /\ Len(common.pieces) = Len(bytes) \div 20
         /\ \A j \in 1..Len(common.pieces) : Len(common.pieces[j]) = 20
         /\ Concat(common.pieces) = bytes

HasPieceFields ==
    /\ gen.kind = "doc"
    /\ gen.piece_length.has
    /\ gen.piece_length.e.tag = "Integer"
    /\ gen.pieces.has
    /\ gen.pieces.e.tag = "ByteString"

\* C8: CommonFileInfo::new, and from_dict and from_element through it, fail when
\* the length of `pieces` is no multiple of 20; for a length of 20*k they yield k
\* pieces of 20 bytes each, in source order, whose concatenation is `pieces`.
C8_PieceHashInvariant ==
    /\ op = "CommonFileInfo::new" => PieceHashRule(arg, ret.some, ret.val)
    /\ (op = "CommonFileInfo::from_dict" /\ HasPieceFields) =>
            PieceHashRule(gen.pieces.e.bytes, ret.some, ret.val)
    /\ (op = "MetaInfo::from_element" /\ ret.some) =>
            PieceHashRule(gen.pieces.e.bytes, TRUE, ret.val.info.common_file_info)

C8_Witness ==
    /\ op = "CommonFileInfo::new"
    /\ Len(arg) = 2 * PIECE_HASH_SIZE
    /\ ret.some
    /\ Len(ret.val.pieces) = 2
    /\ ret.val.pieces[1] # ret.val.pieces[2]

\* announce, info, piece length, pieces and name are present and well-shaped
OtherRequiredValid ==
    /\ gen.kind = "doc"
    /\ gen.root = "dict"
    /\ gen.info = "dict"
    /\ gen.announce.ok
    /\ gen.piece_length.ok
    /\ gen.pieces.ok
    /\ gen.name.ok

\* C9: with the other required fields valid, a `files` key holding a list yields
\* MultipleFile (also for an empty list, also with `length` present), no `files` key
\* yields SingleFile and fails without a valid `length`, and a `files` key never
\* yields SingleFile.
C9_VariantSelection ==
    (op = "MetaInfo::from_element" /\ OtherRequiredValid) =>
        /\ (gen.files.has /\ gen.files.e.tag = "List") =>
                /\ ret.some => ret.val.info.variant = "MultipleFile"
                /\ gen.files.ok => ret.some
        /\ ~gen.files.has =>
                /\ gen.length.ok => (ret.some /\ ret.val.info.variant = "SingleFile")
                /\ ~gen.length.ok => ~ret.some
        /\ gen.files.has => ~(ret.some /\ ret.val.info.variant = "SingleFile")

\* all required fields, those of the chosen variant included, are valid
RequiredValid ==
    /\ OtherRequiredValid
    /\ gen.files.has => gen.files.ok
    /\ ~gen.files.has => gen.length.ok

\* C10: with the required fields valid, from_element succeeds whatever is stored
\* under announce-list, creation date, comment, created by and encoding; a value of
\* the wrong shape leaves that one field absent and the other fields as they are.
C10_OptionalFieldsNeverFail ==
    (op = "MetaInfo::from_element" /\ RequiredValid) =>
        /\ ret.some
        /\ ret.val.announce = gen.announce.e.bytes
        /\ ret.val.announce_list = gen.announce_list.want
        /\ ret.val.creation_date = gen.creation_date.want
        /\ ret.val.comment = gen.comment.want
        /\ ret.val.created_by = gen.created_by.want
        /\ ret.val.encoding = gen.encoding.want

\* the piece size of the CommonFileInfo the last call built, if it built one
BuiltCommon ==
    IF op = "CommonFileInfo::from_dict" /\ ret.some THEN OSome(ret.val)
    ELSE IF op = "MetaInfo::from_element" /\ ret.some THEN OSome(ret.val.info.common_file_info)
    ELSE ONone

\* C11: every CommonFileInfo that from_dict / MetaInfo::from_element builds has a
\* strictly positive piece size equal to the integer under `piece length`; a
\* `piece length` of 0 or below never yields a CommonFileInfo.
C11_PieceLengthPositive ==
    BuiltCommon.some =>
        /\ BuiltCommon.val.piece_length = gen.piece_length.e.int
        /\ BuiltCommon.val.piece_length # U64_ZERO
        /\ ~IsNegative(gen.piece_length.e.int)

\* a required field is missing or of the wrong type: key of dictionary dict is
\* absent or its value has another tag
Lacks(dict, key, tag) == key \notin DOMAIN dict \/ dict[key].tag # tag

\* an element of `files` that is no dictionary, or lacks an integer `length` or a
\* `path` that is a list of valid strings
BadFile(file) ==
    \/ file.tag # "Dictionary"
    \/ Lacks(file.dict, KeyLength, "Integer")
    \/ Lacks(file.dict, KeyPath, "List")
    \/ \E i \in 1..Len(file.dict[KeyPath].list) :
            \/ file.dict[KeyPath].list[i].tag # "ByteString"
            \/ XFF \in {file.dict[KeyPath].list[i].bytes[j] :
                            j \in 1..Len(file.dict[KeyPath].list[i].bytes)}

\* the required-field violations of a root Element
RequiredFieldViolated(element) ==
    \/ element.tag # "Dictionary"
    \/ Lacks(element.dict, KeyAnnounce, "ByteString")
    \/ Lacks(element.dict, KeyInfo, "Dictionary")
    \/ Lacks(element.dict[KeyInfo].dict, KeyPieceLength, "Integer")
    \/ Lacks(element.dict[KeyInfo].dict, KeyPieces, "ByteString")
    \/ Lacks(element.dict[KeyInfo].dict, KeyName, "ByteString")
    \/ /\ ~Lacks(element.dict[KeyInfo].dict, KeyFiles, "List")
       /\ \E i \in 1..Len(element.dict[KeyInfo].dict[KeyFiles].list) :
                BadFile(element.dict[KeyInfo].dict[KeyFiles].list[i])

\* the file list built has one entry per element of `files`, in the same order
SameFiles(files, list) ==
    /\ Len(files) = Len(list)
    /\ \A i \in 1..Len(list) :
            /\ files[i].length = list[i].dict[KeyLength].int
            /\ files[i].path = [j \in 1..Len(list[i].dict[KeyPath].list) |->
                                    list[i].dict[KeyPath].list[j].bytes]

\* C12: MetaInfo::from_element fails, and returns no MetaInfo, when the root is no
\* dictionary, when announce, info, piece length, pieces or name is missing or of
\* the wrong type, or when an element of `files` is no dictionary or lacks a valid
\* length or path; a multi-file result has one entry per element of `files`, in order.
C12_NoPartialResult ==
    op = "MetaInfo::from_element" =>
        /\ RequiredFieldViolated(arg) => ~ret.some
        /\ (ret.some /\ ret.val.info.variant = "MultipleFile") =>
                SameFiles(ret.val.info.files, arg.dict[KeyInfo].dict[KeyFiles].list)

C12_Witness ==
    /\ op = "MetaInfo::from_element"
    /\ ret.some
    /\ ret.val.info.variant = "MultipleFile"
    /\ Len(ret.val.info.files) = 2
    /\ ret.val.info.files[1].length = Word(4)
    /\ ret.val.info.files[2].length = Word(3)

\* the bytes of the i-th child of a generated list, of the i-th key and the i-th
\* value of a generated dictionary
ChildKey(i) == IF gen.kind = "dict" THEN EncodeKey(gen.items[i].key) ELSE <<>>
ChildValue(i) == IF gen.kind = "dict" THEN gen.items[i].value.enc ELSE gen.items[i].enc

\* the 0-based offset in the input just after the first n children
RECURSIVE ChildrenEnd(_)
ChildrenEnd(n) ==
    IF n = 0 THEN 1 ELSE ChildrenEnd(n - 1) + Len(ChildKey(n)) + Len(ChildValue(n))

\* the input bytes from 0-based offset `from`, `count` of them
Range(from, count) == SubSeq(arg, from + 1, from + count)

\* the strict decode of a byte range yields the Element e
DecodesTo(bytes, e) == decode(bytes) = [tag |-> "Some", val |-> e]

\* a closed generated list or dictionary (with valid keys) that decode_all accepted
DecodedContainer ==
    /\ op = "decode_all"
    /\ gen.kind \in {"list", "dict"}
    /\ gen.closed
    /\ gen.kind = "dict" => ValidKeys
    /\ ret.tag = "Some"

\* C13: when decode_all succeeds, the consumed length k has 2 <= k <= len(b) and the
\* value depends on b[0..k] alone; for a List or Dictionary k is 1 + the consumed
\* lengths of the keys and values inside + 1, the children lie in adjacent ranges
\* in input order, and the elements of a List are in the order of their ranges.
C13_ConsumedRange ==
    /\ (op \in {"decode_all", "decode_bytesstring", "decode_integer", "decode_list",
                "decode_dictionary"} /\ ret.tag = "Some") =>
            /\ 2 <= ret.len
            /\ ret.len <= Len(arg)
    /\ (op = "decode_all" /\ ret.tag = "Some" /\ gen.kind # "dict") =>
            ret.len = Len(Bencode(ret.val))
    /\ (op2 \in {"decode_all_prefix", "decode_all_extended"}) =>
            (ret2.tag = "Some" /\ ret2.val = ret.val /\ ret2.len = ret.len)
    /\ DecodedContainer =>
            /\ ret.len = ChildrenEnd(Len(gen.items)) + 1
            /\ gen.kind = "list" =>
                    /\ Len(ret.val.list) = Len(gen.items)
                    /\ \A i \in 1..Len(gen.items) :
                            DecodesTo(Range(ChildrenEnd(i - 1), Len(ChildValue(i))),
                                      ret.val.list[i])
            /\ gen.kind = "dict" =>
                    \A i \in 1..Len(gen.items) :
                        /\ DecodesTo(Range(ChildrenEnd(i - 1), Len(ChildKey(i))),
                                     ByteString(gen.items[i].key))
                        /\ LastOccurrence(i) =>
                                DecodesTo(Range(ChildrenEnd(i - 1) + Len(ChildKey(i)),
                                                Len(ChildValue(i))),
                                          ret.val.dict[gen.items[i].key])

C13_Witness ==
    /\ DecodedContainer
    /\ gen.kind = "list"
    /\ Len(gen.items) = 2
    /\ Len(ChildValue(1)) = 5
    /\ Len(ChildValue(2)) = 4
    /\ ret.tag = "Some"
    /\ ret.len = 11
    /\ ret.val.list[1].tag = "List"
    /\ ret.val.list[2].tag = "ByteString"

\* the cursor of the innermost call as an offset in the whole input
Cursor(r) == r.stack[Len(r.stack)].base + r.stack[Len(r.stack)].idx

\* a step that leaves the decoder running: the same frame with idx advanced, a new
\* frame on a strictly shorter suffix, or a return that advances the caller's idx;
\* the cursor moves forward by at least one byte and never past the end
Advances ==
    (op = "run" /\ op' = "run") =>
        /\ Cursor(ret') > Cursor(ret)
        /\ Cursor(ret') <= Len(arg)
        /\ Len(ret'.stack) = Len(ret.stack) =>
                ret'.stack[Len(ret.stack)].idx > Top.idx
        /\ Len(ret'.stack) > Len(ret.stack) =>
                /\ ret'.stack[Len(ret'.stack)].base > Top.base
                /\ Len(FrameSlice(ret'.stack[Len(ret'.stack)])) < Len(FrameSlice(Top))
        /\ Len(ret'.stack) < Len(ret.stack) =>
                ret'.stack[Len(ret'.stack)].idx > ret.stack[Len(ret'.stack)].idx

\* the result reached step by step is the one decode_all computes
SameResult ==
    op = "returned" =>
        /\ ret.tag = decode_all(arg, 0).tag
        /\ ret.tag = "Some" => ret = decode_all(arg, 0)

\* every run ends, with a value, a failure or an abort, each step in between
\* advancing the cursor; at most one frame is active per byte of the input
DecodeEnds ==
    /\ <>(op = "returned")
    /\ [][Advances]_vars
    /\ [](op = "run" => Len(ret.stack) <= Len(arg))
    /\ []SameResult

\* C14: decoding terminates: every input reaches a result, a value or a failure,
\* every loop iteration that does not return advances the cursor by at least one
\* byte, and every recursive call is made on a strictly shorter suffix.
C14_DecodeTerminates ==
    /\ <>(op = "returned" /\ ret.tag \in {"Some", "None"})
    /\ [][Advances]_vars
    /\ [](op = "run" => Len(ret.stack) <= Len(arg))

\* ---------------------------------------------------------------- claims on decode_u64 / decode_i64

\* the number of leading digits of s: up to the first non-digit or the end
RunLength(s) ==
    CHOOSE n \in 0..Len(s) :
        /\ \A i \in 1..n : IsDigit(s[i])
        /\ n = Len(s) \/ ~IsDigit(s[n + 1])

DigitRun(s) == SubSeq(s, 1, RunLength(s))

\* a > b for two digit strings of the same length
TextGreater(a, b) ==
    \E i \in 1..Len(a) :
        /\ DigitVal(a[i]) > DigitVal(b[i])
        /\ \A j \in 1..(i - 1) : a[j] = b[j]

\* the value of a digit string without a leading zero exceeds u64::MAX, decided on
\* the decimal text
ExceedsU64(run) ==
    \/ Len(run) > Len(u64_to_string(U64_MAX))
    \/ Len(run) = Len(u64_to_string(U64_MAX)) /\ TextGreater(run, u64_to_string(U64_MAX))

\* decode_u64 was called on an input whose first byte is a digit
U64OnDigit == op = "decode_u64" /\ Len(arg) >= 1 /\ IsDigit(arg[1])

\* the value and the length of the maximal digit run
ReturnsRun ==
    /\ ret.tag = "Some"
    /\ ret.len = RunLength(arg)
    /\ u64_to_string(ret.val) = DigitRun(arg)

\* C15 as stated: decode_u64 on an input that starts with '0' returns Some(0) with
\* consumed length 1 whatever follows; on every other input that starts with a
\* digit it returns the decimal value of the maximal leading digit run, with
\* consumed length the run length.
C15_AsStated ==
    U64OnDigit =>
        IF arg[1] = "0" THEN ret = Some(U64_ZERO, 1) ELSE ReturnsRun

\* C15, amended: the same, for the digit runs whose value does not exceed u64::MAX.
C15_LeadingZeroRule ==
    U64OnDigit =>
        IF arg[1] = "0" THEN ret = Some(U64_ZERO, 1)
        ELSE ~ExceedsU64(DigitRun(arg)) => ReturnsRun

C15_Witness ==
    /\ op = "decode_u64"
    /\ arg = <<"0", "1", "2", "3", "a">>
    /\ ret = Some(U64_ZERO, 1)

U64MaxLiteral ==
    <<"1", "8", "4", "4", "6", "7", "4", "4", "0", "7",
      "3", "7", "0", "9", "5", "5", "1", "6", "1", "5">>

\* the 1-based position of the digit at which the value of a digit run (without a
\* leading zero, exceeding u64::MAX) first exceeds u64::MAX, decided on the text
OverflowAt(run) ==
    IF ExceedsU64(SubSeq(run, 1, Len(U64MaxLiteral))) THEN Len(U64MaxLiteral)
    ELSE Len(U64MaxLiteral) + 1

\* C16: decode_u64 decodes the decimal literal of u64::MAX to exactly u64::MAX with
\* consumed length 20; every digit run whose value exceeds u64::MAX fails, and the
\* consumed length reported is the number of digits read up to and including the
\* digit on which the overflow was detected, not the length of the run.
C16_OverflowBoundary ==
    (U64OnDigit /\ arg[1] # "0") =>
        /\ DigitRun(arg) = U64MaxLiteral => ret = Some(U64_MAX, Len(U64MaxLiteral))
        /\ ExceedsU64(DigitRun(arg)) => ret = None(OverflowAt(DigitRun(arg)))

C16_Witness ==
    /\ op = "decode_u64"
    /\ arg = U64MaxLiteral \o <<"0", "0">>
    /\ ret = None(Len(U64MaxLiteral) + 1)

\* s starts with the bytes of prefix
StartsWith(s, prefix) == Len(s) >= Len(prefix) /\ SubSeq(s, 1, Len(prefix)) = prefix

\* C17: decode_u64 fails with consumed length 0 on the empty slice and on an input
\* whose first byte is not a digit; decode_i64 fails with consumed length 0 on an
\* input led by '+', with consumed length 1 on a '-' followed by no digit, and with
\* consumed length 2 on an input that starts with "-0"; when it succeeds on an input
\* led by '-', the consumed length is 1 plus the number of digits.
C17_Rejections ==
    /\ (op = "decode_u64" /\ (arg = <<>> \/ ~IsDigit(arg[1]))) => ret = None(0)
    /\ (op = "decode_i64" /\ StartsWith(arg, <<"+">>)) => ret = None(0)
    /\ (op = "decode_i64" /\ StartsWith(arg, <<"-">>) /\ RunLength(Tail(arg)) = 0)
            => ret = None(1)
    /\ (op = "decode_i64" /\ StartsWith(arg, <<"-", "0">>)) => ret = None(2)
    /\ (op = "decode_i64" /\ StartsWith(arg, <<"-">>) /\ ret.tag = "Some")
            => ret.len = 1 + RunLength(Tail(arg))

C17_Witness ==
    /\ op = "decode_i64"
    /\ arg = <<"-", "-", "+", "1">>
    /\ ret = None(1)

====
